---- MODULE Spec2Model ----
(***************************************************************************)
(* Model of @umituz/react-native-countdown.                                *)
(*                                                                         *)
(* Two parts:                                                              *)
(*  - the useCountdown hook (useCountdown.ts 64-173) as a state machine:   *)
(*    hook state, the values captured by the last committed render, the    *)
(*    interval timer with the closure it was created with, and one action  *)
(*    per control function, timer callback, prop change and render/commit; *)
(*  - the pure functions calculateTimeRemaining, formatCountdown and      *)
(*    formatCountdownCompact (useCountdown.ts 245-458) as operators,       *)
(*    applied by the actions of a second specification to inputs drawn     *)
(*    from bounded sets.                                                   *)
(*                                                                         *)
(* React semantics used by the hook part:                                  *)
(*  - a setState call stores the value and schedules a render; setting a   *)
(*    primitive to the value it already has schedules nothing; setting an  *)
(*    object state to a freshly built object always schedules a render;    *)
(*  - a render captures the state in closures; useCallback returns a new   *)
(*    function when one of its dependencies changed; an effect runs after  *)
(*    the commit when one of its dependencies changed, its previous        *)
(*    cleanup first, effects in declaration order;                         *)
(*  - a scheduled render is committed before the next event (control       *)
(*    call, prop change, timer callback, unmount) is processed.            *)
(***************************************************************************)
EXTENDS Integers, Sequences, FiniteSets, TLC

VARIABLES
    mounted,        \* the component using the hook is mounted
    targetDate,     \* the targetDate argument (prop) of the hook
    autoStart,      \* options.autoStart
    onExpireKind,   \* options.onExpire: "none", "stable" (same function on
                    \* every render) or "inline" (a new function per render)
    currentTarget,  \* useState currentTarget
    isActive,       \* useState isActive
    timeRemaining,  \* useState timeRemaining (the published duration)
    rendered,       \* what the last committed render captured
    timer,          \* the setInterval of the interval effect and its closure
    needsRender,    \* a render is scheduled
    now,            \* the wall clock, epoch milliseconds
    ev,             \* what the last step did (observation)
    resetTarget,    \* argument of the last reset() since the last prop change
    stopped,        \* stop() was the last of stop/start/reset/prop change
    phase,          \* "fresh": no control call or prop change yet;
                    \* "started": only start() calls so far; "other"
    arg,            \* input of the pure functions (second specification)
    res             \* result of the last pure function applied

hookVars == <<mounted, targetDate, autoStart, onExpireKind, currentTarget,
              isActive, timeRemaining, rendered, timer, needsRender, now, ev,
              resetTarget, stopped, phase>>
fnVars == <<arg, res>>
vars == <<mounted, targetDate, autoStart, onExpireKind, currentTarget,
          isActive, timeRemaining, rendered, timer, needsRender, now, ev,
          resetTarget, stopped, phase, arg, res>>

----------------------------------------------------------------------------
(* Bounds *)

MaxNow == 4000
ClockStep == 1000
MaxHours == 2

----------------------------------------------------------------------------
(* Values *)

\* A target is an ISO date string; it is represented by a record whose ms
\* field is the instant the string parses to.  undefined and null are the
\* two absent values of the hook's targetDate argument.
Undefined == [tag |-> "undefined", ms |-> 0]
Null == [tag |-> "null", ms |-> 0]
DateOf(n) == [tag |-> "date", ms |-> n]

TargetTimes == {0, 1500, 2500}
Dates == {DateOf(n) : n \in TargetTimes}
TargetInputs == {Undefined, Null} \cup Dates

\* new Date(targetDate).getTime()
getTime(d) == d.ms

\* targetDate || null
OrNull(v) == IF v = Undefined THEN Null ELSE v

Max(a, b) == IF a >= b THEN a ELSE b

----------------------------------------------------------------------------
(* calculateTimeRemaining *)

\* the difference without its clamp to zero
calculateTimeRemaining_noClamp(target, nowMs) ==
    LET difference == target - nowMs
        totalSeconds == difference \div 1000
    IN  [hours |-> totalSeconds \div 3600,
         minutes |-> (totalSeconds % 3600) \div 60,
         seconds |-> totalSeconds % 60,
         totalSeconds |-> totalSeconds,
         isExpired |-> totalSeconds <= 0]

calculateTimeRemaining(target, nowMs) ==
    LET difference == Max(0, target - nowMs)
        totalSeconds == difference \div 1000
    IN  [hours |-> totalSeconds \div 3600,
         minutes |-> (totalSeconds % 3600) \div 60,
         seconds |-> totalSeconds % 60,
         totalSeconds |-> totalSeconds,
         isExpired |-> totalSeconds <= 0]

\* the sentinel published when there is no target
ZeroRemaining ==
    [hours |-> 0, minutes |-> 0, seconds |-> 0, totalSeconds |-> 0,
     isExpired |-> TRUE]

----------------------------------------------------------------------------
(* The hook *)

NoTimer == [set |-> FALSE, target |-> Null]
TimerOf(ct) == [set |-> TRUE, target |-> ct]

\* gen tells the closures and objects of one render from those of the render
\* before it: every render creates new ones.
NotRendered ==
    [valid |-> FALSE, currentTarget |-> Null, isActive |-> FALSE,
     targetDate |-> Undefined, gen |-> 0]

NoReset == Undefined

Event(op, pubs, expires, from) ==
    [op |-> op, pubs |-> pubs, expires |-> expires, from |-> from]

\* updateCountdown with the callback latched: onExpire only on the transition
\* from a non-expired published duration to an expired one.
updateCountdown_latched(ct) ==
    IF ct = Null
    THEN [tr |-> ZeroRemaining, expires |-> 0]
    ELSE LET remaining == calculateTimeRemaining(getTime(ct), now)
         IN  [tr |-> remaining,
              expires |-> IF /\ remaining.isExpired
                             /\ ~timeRemaining.isExpired
                             /\ onExpireKind # "none"
                          THEN 1 ELSE 0]

\* One call of the updateCountdown closure that captured currentTarget = ct:
\* the duration it publishes and the number of onExpire calls it makes.
updateCountdown(ct) ==
    IF ct = Null
    THEN [tr |-> ZeroRemaining, expires |-> 0]
    ELSE LET remaining == calculateTimeRemaining(getTime(ct), now)
         IN  [tr |-> remaining,
              expires |-> IF remaining.isExpired /\ onExpireKind # "none"
                          THEN 1 ELSE 0]

\* useState initialisers
InitialRemaining(ct) ==
    IF ct = Null THEN ZeroRemaining
    ELSE calculateTimeRemaining(getTime(ct), now)

NoArg ==
    [target |-> 0, now |-> 0, showZeros |-> FALSE, threshold |-> 0,
     showHours |-> TRUE, showSeconds |-> TRUE]
NoRes == [fn |-> "none", out |-> <<>>]

OnExpireKinds == {"none", "stable"}

InitHook(kinds) ==
    /\ now = 0
    /\ mounted = TRUE
    /\ targetDate \in TargetInputs
    /\ autoStart \in BOOLEAN
    /\ onExpireKind \in kinds
    /\ currentTarget = OrNull(targetDate)
    /\ isActive = autoStart
    /\ timeRemaining = InitialRemaining(OrNull(targetDate))
    /\ rendered = NotRendered
    /\ timer = NoTimer
    /\ needsRender = TRUE
    /\ ev = Event("construct", 0, 0, {})
    /\ resetTarget = NoReset
    /\ stopped = FALSE
    /\ phase = "fresh"

Init ==
    /\ InitHook(OnExpireKinds)
    /\ arg = NoArg
    /\ res = NoRes

\* The dependency comparisons of one render against the previous one.
updateCountdownChanged ==
    \/ ~rendered.valid
    \/ currentTarget # rendered.currentTarget
    \/ onExpireKind = "inline"

\* the interval effect with isActive missing from its dependency list
intervalEffectRuns_noActiveDep == updateCountdownChanged

intervalEffectRuns ==
    \/ updateCountdownChanged
    \/ isActive # rendered.isActive

targetEffectRuns ==
    \/ updateCountdownChanged
    \/ targetDate # rendered.targetDate

\* the interval effect gets past its early return
intervalEffectBody == intervalEffectRuns /\ isActive /\ currentTarget # Null

\* the targetDate effect gets past its condition
targetEffectBody == targetEffectRuns /\ targetDate # Undefined

\* Render and commit: the component function runs with the current state,
\* then the cleanups and the effects whose dependencies changed.
Render ==
    /\ mounted
    /\ needsRender
    /\ LET ct == currentTarget
           calls == (IF intervalEffectBody THEN 1 ELSE 0)
                    + (IF targetEffectBody THEN 1 ELSE 0)
           uc == updateCountdown(ct)
       IN  /\ timer' = IF intervalEffectRuns
                       THEN (IF intervalEffectBody THEN TimerOf(ct) ELSE NoTimer)
                       ELSE timer
           /\ currentTarget' = IF targetEffectBody THEN OrNull(targetDate) ELSE ct
           /\ timeRemaining' = IF calls > 0 THEN uc.tr ELSE timeRemaining
           /\ needsRender' = (calls > 0 \/ currentTarget' # ct)
           /\ ev' = Event("render", calls, calls * uc.expires,
                          IF calls > 0 THEN {ct} ELSE {})
           /\ rendered' = [valid |-> TRUE, currentTarget |-> ct,
                           isActive |-> isActive, targetDate |-> targetDate,
                           gen |-> 1 - rendered.gen]
    /\ UNCHANGED <<mounted, targetDate, autoStart, onExpireKind, isActive, now,
                   resetTarget, stopped, phase, arg, res>>

\* the timer as a setTimeout: it fires once
Tick_once ==
    /\ timer.set
    /\ ~needsRender
    /\ LET uc == updateCountdown(timer.target)
       IN  /\ timeRemaining' = IF mounted THEN uc.tr ELSE timeRemaining
           /\ needsRender' = mounted
           /\ ev' = Event("tick", 1, uc.expires, {timer.target})
    /\ timer' = NoTimer
    /\ UNCHANGED <<mounted, targetDate, autoStart, onExpireKind, currentTarget,
                   isActive, rendered, now, resetTarget, stopped, phase,
                   arg, res>>

\* The setInterval callback: the updateCountdown the interval was created with.
Tick ==
    /\ timer.set
    /\ ~needsRender
    /\ LET uc == updateCountdown(timer.target)
       IN  /\ timeRemaining' = IF mounted THEN uc.tr ELSE timeRemaining
           /\ needsRender' = mounted
           /\ ev' = Event("tick", 1, uc.expires, {timer.target})
    /\ UNCHANGED <<mounted, targetDate, autoStart, onExpireKind, currentTarget,
                   isActive, rendered, timer, now, resetTarget, stopped, phase,
                   arg, res>>

start ==
    /\ mounted
    /\ ~needsRender
    /\ isActive' = TRUE
    /\ needsRender' = (isActive # TRUE)
    /\ ev' = Event("start", 0, 0, {})
    /\ stopped' = FALSE
    /\ phase' = IF phase \in {"fresh", "started"} THEN "started" ELSE "other"
    /\ UNCHANGED <<mounted, targetDate, autoStart, onExpireKind, currentTarget,
                   timeRemaining, rendered, timer, now, resetTarget, arg, res>>

stop ==
    /\ mounted
    /\ ~needsRender
    /\ isActive' = FALSE
    /\ needsRender' = (isActive # FALSE)
    /\ ev' = Event("stop", 0, 0, {})
    /\ stopped' = TRUE
    /\ phase' = "other"
    /\ UNCHANGED <<mounted, targetDate, autoStart, onExpireKind, currentTarget,
                   timeRemaining, rendered, timer, now, resetTarget, arg, res>>

\* reset calls the updateCountdown of the render it was created in.
reset(newTargetDate) ==
    /\ mounted
    /\ ~needsRender
    /\ LET uc == updateCountdown(rendered.currentTarget)
       IN  /\ currentTarget' = newTargetDate
           /\ isActive' = TRUE
           /\ timeRemaining' = uc.tr
           /\ needsRender' = TRUE
           /\ ev' = Event("reset", 1, uc.expires, {rendered.currentTarget})
    /\ resetTarget' = newTargetDate
    /\ stopped' = FALSE
    /\ phase' = "other"
    /\ UNCHANGED <<mounted, targetDate, autoStart, onExpireKind, rendered,
                   timer, now, arg, res>>

\* The caller renders the hook with another targetDate argument.
SetTargetDate(v) ==
    /\ mounted
    /\ ~needsRender
    /\ v # targetDate
    /\ targetDate' = v
    /\ needsRender' = TRUE
    /\ ev' = Event("retarget", 0, 0, {})
    /\ resetTarget' = NoReset
    /\ stopped' = FALSE
    /\ phase' = "other"
    /\ UNCHANGED <<mounted, autoStart, onExpireKind, currentTarget, isActive,
                   timeRemaining, rendered, timer, now, arg, res>>

\* an interval effect that returns no cleanup
Unmount_leak ==
    /\ mounted
    /\ ~needsRender
    /\ mounted' = FALSE
    /\ ev' = Event("unmount", 0, 0, {})
    /\ phase' = "other"
    /\ UNCHANGED <<targetDate, autoStart, onExpireKind, currentTarget, isActive,
                   timeRemaining, rendered, timer, needsRender, now,
                   resetTarget, stopped, arg, res>>

\* Unmount runs the cleanup of the interval effect.
Unmount ==
    /\ mounted
    /\ ~needsRender
    /\ mounted' = FALSE
    /\ timer' = NoTimer
    /\ ev' = Event("unmount", 0, 0, {})
    /\ phase' = "other"
    /\ UNCHANGED <<targetDate, autoStart, onExpireKind, currentTarget, isActive,
                   timeRemaining, rendered, needsRender, now, resetTarget,
                   stopped, arg, res>>

AdvanceClock ==
    /\ now + ClockStep <= MaxNow
    /\ now' = now + ClockStep
    /\ ev' = Event("clock", 0, 0, {})
    /\ UNCHANGED <<mounted, targetDate, autoStart, onExpireKind, currentTarget,
                   isActive, timeRemaining, rendered, timer, needsRender,
                   resetTarget, stopped, phase, arg, res>>

Next ==
    \/ Render
    \/ Tick
    \/ start
    \/ stop
    \/ \E d \in Dates : reset(d)
    \/ \E v \in TargetInputs : SetTargetDate(v)
    \/ Unmount
    \/ AdvanceClock

Spec == Init /\ [][Next]_vars

SpecLive ==
    /\ Init
    /\ [][Next]_vars
    /\ WF_vars(Render)
    /\ WF_vars(Tick)
    /\ WF_vars(AdvanceClock)

\* onExpire absent, memoised by the caller, or written inline in the
\* caller's render (a new function on every render)
AllOnExpireKinds == {"none", "stable", "inline"}

InitAnyCallback ==
    /\ InitHook(AllOnExpireKinds)
    /\ arg = NoArg
    /\ res = NoRes

\* React commits every render it has scheduled.
SpecQuiesce ==
    /\ InitAnyCallback
    /\ [][Next]_vars
    /\ WF_vars(Render)

TypeOK ==
    /\ mounted \in BOOLEAN
    /\ targetDate \in TargetInputs
    /\ currentTarget \in {Null} \cup Dates
    /\ isActive \in BOOLEAN
    /\ needsRender \in BOOLEAN
    /\ now \in 0..MaxNow
    /\ ev.pubs \in 0..2

----------------------------------------------------------------------------
(* formatCountdown, with the default separator and keys and no translation *)
(* function                                                                *)

RECURSIVE Join(_, _)
\* parts.join(separator)
Join(parts, separator) ==
    IF Len(parts) = 0 THEN ""
    ELSE IF Len(parts) = 1 THEN parts[1]
    ELSE parts[1] \o separator \o Join(Tail(parts), separator)

AvailableNow == "Available now"

formatCountdown(target, nowMs, showSecondsThreshold, showZeros) ==
    LET r == calculateTimeRemaining(target, nowMs)
        hoursPart ==
            IF r.hours > 0 \/ showZeros
            THEN IF r.hours = 1 THEN <<"1 hour">>
                 ELSE IF r.hours > 0 THEN <<ToString(r.hours) \o " hours">>
                 ELSE <<>>
            ELSE <<>>
        minutesPart ==
            IF r.minutes > 0 \/ (showZeros /\ r.hours = 0)
            THEN IF r.minutes = 1 THEN <<"1 minute">>
                 ELSE IF r.minutes > 0
                      THEN <<ToString(r.minutes) \o " minutes">>
                 ELSE <<>>
            ELSE <<>>
        secondsPart ==
            IF r.hours = 0 /\ r.minutes < showSecondsThreshold
            THEN IF r.seconds > 0 \/ showZeros
                 THEN IF r.seconds = 1 THEN <<"1 second">>
                      ELSE IF r.seconds > 0
                           THEN <<ToString(r.seconds) \o " seconds">>
                      ELSE <<>>
                 ELSE <<>>
            ELSE <<>>
        parts == hoursPart \o minutesPart \o secondsPart
    IN  IF r.isExpired THEN AvailableNow
        ELSE IF Len(parts) = 0 THEN AvailableNow
        ELSE Join(parts, " ")

----------------------------------------------------------------------------
(* formatCountdownCompact; its output is a sequence of characters *)

DigitChars == <<"0", "1", "2", "3", "4", "5", "6", "7", "8", "9">>

RECURSIVE toString(_)
\* Number.prototype.toString of a non-negative integer
toString(n) ==
    IF n < 10 THEN <<DigitChars[n + 1]>>
    ELSE toString(n \div 10) \o <<DigitChars[(n % 10) + 1]>>

\* no padding at all
padStart_none(str, targetLength, padString) == str

RECURSIVE padStart(_, _, _)
\* String.prototype.padStart with a one-character pad string
padStart(str, targetLength, padString) ==
    IF Len(str) >= targetLength THEN str
    ELSE padStart(<<padString>> \o str, targetLength, padString)

formatCountdownCompact(target, nowMs, showHours, showSeconds) ==
    LET r == calculateTimeRemaining(target, nowMs)
        s == IF showSeconds THEN padStart(toString(r.seconds), 2, "0")
             ELSE <<>>
    IN  IF r.isExpired
        THEN IF showHours THEN <<"0", ":", "0", "0", ":", "0", "0">>
             ELSE <<"0", ":", "0", "0">>
        ELSE IF showHours
        THEN LET h == padStart(toString(r.hours), 2, "0")
                 m == padStart(toString(r.minutes), 2, "0")
             IN  IF showSeconds THEN h \o <<":">> \o m \o <<":">> \o s
                 ELSE h \o <<":">> \o m
        ELSE LET totalMinutes == r.hours * 60 + r.minutes
                 m == padStart(toString(totalMinutes), 2, "0")
             IN  IF showSeconds THEN m \o <<":">> \o s
                 ELSE m

----------------------------------------------------------------------------
(* The pure functions applied to bounded inputs *)

MinuteSamples == {0, 1, 4, 5, 59}
SecondSamples == {0, 1, 2, 59}
MilliSamples == {0, 999}
NowSamples == {0, 1, 2000, 3600000}
ThresholdSamples == {1, 5}

TargetSamples ==
    {h * 3600000 + m * 60000 + s * 1000 + ms :
        h \in 0..MaxHours, m \in MinuteSamples, s \in SecondSamples,
        ms \in MilliSamples}

Args ==
    [target : TargetSamples, now : NowSamples, showZeros : BOOLEAN,
     threshold : ThresholdSamples, showHours : BOOLEAN,
     showSeconds : BOOLEAN]

InitFn ==
    /\ InitHook({"none"})
    /\ targetDate = Undefined
    /\ autoStart = TRUE
    /\ arg \in Args
    /\ res = NoRes

CalculateTimeRemaining ==
    /\ res' = [fn |-> "calculateTimeRemaining",
               out |-> calculateTimeRemaining(arg.target, arg.now)]
    /\ UNCHANGED <<hookVars, arg>>

FormatCountdown ==
    /\ res' = [fn |-> "formatCountdown",
               out |-> formatCountdown(arg.target, arg.now, arg.threshold,
                                       arg.showZeros)]
    /\ UNCHANGED <<hookVars, arg>>

FormatCountdownCompact ==
    /\ res' = [fn |-> "formatCountdownCompact",
               out |-> formatCountdownCompact(arg.target, arg.now,
                                              arg.showHours, arg.showSeconds)]
    /\ UNCHANGED <<hookVars, arg>>

NextFn ==
    \/ CalculateTimeRemaining
    \/ FormatCountdown
    \/ FormatCountdownCompact

SpecFn == InitFn /\ [][NextFn]_vars

----------------------------------------------------------------------------
(* Claims *)

\* the duration and the onExpire calls one recomputation from target d at
\* the current instant has to produce
RemainingFor(d) == calculateTimeRemaining(getTime(d), now)
ExpiresFor(d) ==
    IF RemainingFor(d).isExpired /\ onExpireKind # "none" THEN 1 ELSE 0

\* C1: once the renders that follow reset(newTarget) are done, the hook is
\* active (unless stop() was called since) and currentTarget is newTarget,
\* as long as no other reset and no change of the targetDate argument
\* happened.
C1_ResetSettlesOnNewTarget ==
    (resetTarget # NoReset /\ ~needsRender)
        => /\ currentTarget = resetTarget
           /\ (~stopped => isActive)

\* C2: the duration reset(newTarget) publishes and the onExpire calls it
\* makes are those of newTarget at the instant of the call.
C2_ResetRecomputesFromNewTarget ==
    ev.op = "reset"
        => /\ timeRemaining = RemainingFor(resetTarget)
           /\ ev.expires = ExpiresFor(resetTarget)

C4_NoRecomputeBeforeStart ==
    (phase = "fresh" /\ ~autoStart /\ targetDate \in Dates)
        => /\ ~isActive
           /\ ev.pubs = 0
           /\ ev.expires = 0

\* C5: after unmount no interval is left and no step publishes a duration
\* or calls onExpire.
C5_NoCallbackAfterTeardown ==
    ~mounted
        => /\ ~timer.set
           /\ ev.op \in {"unmount", "clock"}
           /\ ev.pubs = 0
           /\ ev.expires = 0

C5_Witness ==
    /\ ~mounted
    /\ ev.op = "clock"
    /\ rendered.isActive
    /\ rendered.currentTarget # Null
    /\ now >= getTime(rendered.currentTarget) + ClockStep

\* C6: a timer tick happens only while the hook is active with a target; it
\* publishes the duration of the current target at the instant of the tick
\* and calls a supplied onExpire once if that duration is expired, also when
\* the duration published before was already expired, and not at all if it
\* is not expired.
C6_TickCallsOnExpireIffExpired ==
    ev.op = "tick"
        => /\ isActive
           /\ currentTarget # Null
           /\ ev.pubs = 1
           /\ timeRemaining = RemainingFor(currentTarget)
           /\ ev.expires = ExpiresFor(currentTarget)

C6_Witness ==
    /\ ev.op = "tick"
    /\ onExpireKind = "stable"
    /\ timeRemaining.isExpired
    /\ ev.expires = 1
    /\ now >= getTime(currentTarget) + ClockStep + ClockStep

\* C7: the render that follows a change of the targetDate argument of an
\* active hook to a date sets currentTarget to it, publishes the duration of
\* the new target, calls onExpire according to that duration, and leaves
\* isActive unchanged.
C7_RetargetRecomputesFromNewTarget ==
    [][(ev.op = "retarget" /\ isActive /\ currentTarget \in Dates
        /\ targetDate \in Dates /\ ev'.op = "render")
           => /\ currentTarget' = targetDate
              /\ isActive' = isActive
              /\ ev'.pubs >= 1
              /\ timeRemaining' = RemainingFor(targetDate)
              /\ ev'.expires = ev'.pubs * ExpiresFor(targetDate)]_vars

\* C8: a hook constructed with autoStart = false, a date and an onExpire
\* callback, on which only start() has been called since, eventually
\* publishes an expired duration and calls onExpire, unless another control
\* call, a change of the targetDate argument or the unmount comes first.
C8_StartLeadsToExpiry ==
    (phase = "started" /\ ~autoStart /\ onExpireKind = "stable"
     /\ targetDate \in Dates)
        ~> (phase # "started" \/ (timeRemaining.isExpired /\ ev.expires > 0))

C8_Witness ==
    /\ phase = "started"
    /\ ~autoStart
    /\ onExpireKind = "stable"
    /\ getTime(targetDate) > 0
    /\ targetDate \in Dates
    /\ ev.op = "tick"
    /\ timeRemaining.isExpired
    /\ ev.expires = 1

\* C9: calculateTimeRemaining(T, now) has totalSeconds =
\* max(0, floor((T - now) / 1000)), hours, minutes and seconds are its
\* decomposition with minutes and seconds in 0..59 and hours >= 0, and
\* isExpired holds exactly when totalSeconds = 0; T <= now gives
\* totalSeconds = 0 and isExpired.
C9_CalculateDecomposes ==
    res.fn = "calculateTimeRemaining"
        => LET r == res.out
               floorSeconds == (arg.target - arg.now) \div 1000
           IN  /\ r.totalSeconds = Max(0, floorSeconds)
               /\ r.hours * 3600 + r.minutes * 60 + r.seconds = r.totalSeconds
               /\ r.minutes \in 0..59
               /\ r.seconds \in 0..59
               /\ r.hours >= 0
               /\ (r.isExpired <=> r.totalSeconds = 0)
               /\ (arg.target <= arg.now
                      => r.totalSeconds = 0 /\ r.isExpired)

C9_Witness ==
    /\ res.fn = "calculateTimeRemaining"
    /\ arg.target < arg.now
    /\ (arg.now - arg.target) % 1000 # 0
    /\ res.out.isExpired
    /\ res.out.totalSeconds = 0

\* the wording of one part: singular for 1, plural with the count otherwise
PartText(count, singular, plural) ==
    IF count = 1 THEN "1 " \o singular
    ELSE ToString(count) \o " " \o plural

\* C10: for a duration that is not expired, formatCountdown joins, in this
\* order, an hours part iff hours > 0 or showZeros, a minutes part iff
\* minutes > 0 or (showZeros and hours = 0), a seconds part iff hours = 0 and
\* minutes < showSecondsThreshold and (seconds > 0 or showZeros), and returns
\* "Available now" only when there is no part.
C10_FormatIncludesParts ==
    (res.fn = "formatCountdown"
     /\ ~calculateTimeRemaining(arg.target, arg.now).isExpired)
        => LET r == calculateTimeRemaining(arg.target, arg.now)
               hoursPart ==
                   IF r.hours > 0 \/ arg.showZeros
                   THEN <<PartText(r.hours, "hour", "hours")>> ELSE <<>>
               minutesPart ==
                   IF r.minutes > 0 \/ (arg.showZeros /\ r.hours = 0)
                   THEN <<PartText(r.minutes, "minute", "minutes")>> ELSE <<>>
               secondsPart ==
                   IF /\ r.hours = 0
                      /\ r.minutes < arg.threshold
                      /\ (r.seconds > 0 \/ arg.showZeros)
                   THEN <<PartText(r.seconds, "second", "seconds")>> ELSE <<>>
               parts == hoursPart \o minutesPart \o secondsPart
           IN  res.out = IF Len(parts) = 0 THEN AvailableNow
                         ELSE Join(parts, " ")

\* the fields of a character sequence between its ":" characters
RECURSIVE Fields(_)
Fields(str) ==
    IF \A i \in 1..Len(str) : str[i] # ":" THEN <<str>>
    ELSE LET k == CHOOSE i \in 1..Len(str) :
                      /\ str[i] = ":"
                      /\ \A j \in 1..(i - 1) : str[j] # ":"
         IN  <<SubSeq(str, 1, k - 1)>> \o Fields(SubSeq(str, k + 1, Len(str)))

AllDigits(str) ==
    \A i \in 1..Len(str) : \E d \in 1..Len(DigitChars) : str[i] = DigitChars[d]

\* ^\d+:\d{2}(:\d{2})?$
MatchesCompactPattern(str) ==
    LET f == Fields(str)
    IN  /\ Len(f) \in {2, 3}
        /\ Len(f[1]) >= 1
        /\ \A i \in 1..Len(f) : AllDigits(f[i])
        /\ \A i \in 2..Len(f) : Len(f[i]) = 2

CompactNotExpired ==
    /\ res.fn = "formatCountdownCompact"
    /\ ~calculateTimeRemaining(arg.target, arg.now).isExpired

\* C11 (as claimed): for every duration that is not expired and every
\* combination of showHours and showSeconds, the output of
\* formatCountdownCompact matches ^\d+:\d{2}(:\d{2})?$.
C11_CompactAlwaysMatches ==
    CompactNotExpired => MatchesCompactPattern(res.out)

\* C11 (amended): for a duration that is not expired the output matches
\* ^\d+:\d{2}(:\d{2})?$ when showHours or showSeconds is set; when both are
\* unset it is the total minutes alone, two or more digits and no colon.
C11_CompactMatchesUnlessMinutesOnly ==
    CompactNotExpired
        => IF arg.showHours \/ arg.showSeconds
           THEN MatchesCompactPattern(res.out)
           ELSE /\ Len(res.out) >= 2
                /\ AllDigits(res.out)

\* total minutes of three digits, hours folded in, seconds shown
C11_Witness ==
    /\ CompactNotExpired
    /\ ~arg.showHours
    /\ arg.showSeconds
    /\ Len(res.out) = 6
    /\ MatchesCompactPattern(res.out)

\* C12: after construction and after every control call or change of the
\* targetDate argument the renders come to an end: again and again no render
\* is scheduled, whatever the identity of onExpire does across renders.
\* (Control calls, prop changes and ticks are taken only when no render is
\* scheduled, so a render that stays scheduled is one the hook itself keeps
\* scheduling.)
C12_RendersComeToAnEnd == []<>(~needsRender)
====
